---- MODULE Spec2Model ----
(***************************************************************************)
(* TripFare (src/app.py): a Streamlit script that is executed top to       *)
(* bottom on every user interaction.  The process state is the resource    *)
(* cache behind load_model and the widget values of the session; the run   *)
(* state is the script's namespace and the elements the run has put on     *)
(* the page.                                                               *)
(*                                                                         *)
(* Numbers.  Python ints are TLA+ integers.  Python floats are exact       *)
(* rationals <<numerator, denominator>> in lowest terms (every float the   *)
(* script computes is a quotient of small integers, and the properties     *)
(* checked here are separated by far more than one ulp).                   *)
(*                                                                         *)
(* Scheduling.  A run is not interrupted: the user acts on the page only   *)
(* between runs (pc = "idle").                                             *)
(***************************************************************************)
EXTENDS Integers, Sequences, FiniteSets, TLC

VARIABLES
    \* ---- process: st.cache_resource entry of load_model ----
    cached_model,     \* NoModel, or the object joblib.load returned
    loads,            \* number of completed joblib.load calls
    \* ---- session: widget values (they are the script's variables too) ----
    passenger_count, trip_distance, trip_duration,
    pickup_hour_12, pickup_minute, am_pm,
    button_state,     \* the button's trigger value, TRUE after a click
    \* ---- run: position, namespace, page elements ----
    pc,               \* next statement of the script, "idle" between runs
    trigger,          \* what started the run: "load", "widget" or "click"
    model,            \* line 24
    pickup_hour_24,   \* lines 167-170
    pickup_time,      \* line 173
    is_night,         \* lines 176-179
    night_label,      \* lines 182-183, the caption on the page
    predict_clicked,  \* lines 189-190
    fitted_checked,   \* check_is_fitted(model) returned normally in this run
    input_data,       \* lines 199-203
    predict_calls,    \* calls of model.predict in this run
    predicted_with,   \* the object whose predict was called
    predict_outcome,  \* what that call did: "none", "returned" or "raised"
    predicted_fare,   \* line 206
    fare_shown,       \* the fare on the page, in cents (line 210)
    error,            \* the exception that ended the run, "none" otherwise
    footer_shown,     \* lines 222-228 ran
    \* ---- history ----
    seen              \* a remembered earlier derivation [req, vec], or NoSeen

vars == <<cached_model, loads, passenger_count, trip_distance, trip_duration,
          pickup_hour_12, pickup_minute, am_pm, button_state, pc, trigger,
          model, pickup_hour_24, pickup_time, is_night, night_label,
          predict_clicked, fitted_checked, input_data, predict_calls,
          predicted_with, predict_outcome, predicted_fare, fare_shown, error,
          footer_shown, seen>>

process_vars == <<cached_model, loads>>
widget_vars  == <<passenger_count, trip_distance, trip_duration,
                  pickup_hour_12, pickup_minute, am_pm>>

-----------------------------------------------------------------------------
(* Python arithmetic *)

RECURSIVE GCD(_, _)
GCD(a, b) == IF b = 0 THEN a ELSE GCD(b, a % b)

\* a float with the value n/d (n >= 0, d > 0), in lowest terms
Rat(n, d) == LET g == GCD(n, d) IN <<n \div g, d \div g>>

\* float(i) for an int i
FloatOfInt(i) == <<i, 1>>

\* int / int of Python 3: true division, a float
TrueDiv(a, b) == Rat(a, b)

\* int + float
IntPlusFloat(i, f) == Rat(i * f[2] + f[1], f[2])

\* float + float and int * float, used by the slider's value grid
FloatAdd(f, g) == Rat(f[1] * g[2] + g[1] * f[2], f[2] * g[2])
IntTimesFloat(k, f) == Rat(k * f[1], f[2])

\* int(b) for a bool b
IntOfBool(b) == IF b THEN 1 ELSE 0

\* f"{x:.2f}": x rounded to the nearest cent, as a number of cents (the
\* fares of FareValues are never half way between two cents)
Format2f(f) == (200 * f[1] + f[2]) \div (2 * f[2])

-----------------------------------------------------------------------------
(* Widgets, lines 102-160 *)

PassengerCountBox == [options |-> <<1, 2, 3, 4, 5, 6>>, index |-> 0]
TripDistanceSlider ==
    [min_value |-> Rat(1, 2), max_value |-> Rat(50, 1),
     value |-> Rat(5, 1), step |-> Rat(1, 2)]
TripDurationSlider == [min_value |-> 2, max_value |-> 120, value |-> 15, step |-> 1]
PickupHourBox == [options |-> [i \in 1..12 |-> i], index |-> 11]
\* PickupMinuteSlider with 60 as its last minute
PickupMinuteSliderTo60 == [min_value |-> 0, max_value |-> 60, value |-> 0, step |-> 1]
PickupMinuteSlider == [min_value |-> 0, max_value |-> 59, value |-> 0, step |-> 1]
AmPmBox == [options |-> <<"AM", "PM">>, index |-> 1]

\* st.selectbox: the values it can return, and the one it returns at first
SelectboxValues(w) == {w.options[i] : i \in 1..Len(w.options)}
SelectboxDefault(w) == w.options[w.index + 1]

\* st.slider with int arguments
SliderValues(s) ==
    {s.min_value + k * s.step : k \in 0..((s.max_value - s.min_value) \div s.step)}

\* st.slider with float arguments
FloatSliderValues(s) ==
    LET span == (s.max_value[1] * s.min_value[2] - s.min_value[1] * s.max_value[2])
                    * s.step[2]
        unit == s.step[1] * s.max_value[2] * s.min_value[2]
    IN  {FloatAdd(s.min_value, IntTimesFloat(k, s.step)) : k \in 0..(span \div unit)}

-----------------------------------------------------------------------------
(* Feature derivation, lines 166-183 and 199-203 *)

\* To24Hour without the special case of 12 PM
To24HourNoonAdded(hour12, meridiem) ==
    IF meridiem = "AM"
    THEN (IF hour12 = 12 THEN 0 ELSE hour12)
    ELSE hour12 + 12

\* lines 167-170: 12-hour clock to 24-hour clock
To24Hour(hour12, meridiem) ==
    IF meridiem = "AM"
    THEN (IF hour12 = 12 THEN 0 ELSE hour12)
    ELSE (IF hour12 = 12 THEN 12 ELSE hour12 + 12)

\* FractionalHour with the minute taken as a fraction of 59 minutes
FractionalHourOf59(hour24, minute) == IntPlusFloat(hour24, TrueDiv(minute, 59))

\* line 173: pickup_hour_24 + (pickup_minute / 60)
FractionalHour(hour24, minute) == IntPlusFloat(hour24, TrueDiv(minute, 60))

\* IsNight with the morning bound exclusive
IsNightBefore5(hour24) == (hour24 >= 22) \/ (hour24 < 5)

\* lines 176-179
IsNight(hour24) == (hour24 >= 22) \/ (hour24 <= 5)

\* line 182
NightLabel(night) == IF night THEN "Night / Early Morning Ride" ELSE "Daytime Ride"

\* InputRow with duration and distance in each other's place
InputRowSwapped(distance, duration, time, night, passengers) ==
    <<FloatOfInt(duration), distance, time, FloatOfInt(IntOfBool(night)),
      FloatOfInt(passengers)>>

\* lines 199-203: np.array([[...]], dtype=float), the one row of it
InputRow(distance, duration, time, night, passengers) ==
    <<distance, FloatOfInt(duration), time, FloatOfInt(IntOfBool(night)),
      FloatOfInt(passengers)>>

\* the request the widgets hold
Request ==
    [passenger_count |-> passenger_count, trip_distance |-> trip_distance,
     trip_duration |-> trip_duration, pickup_hour_12 |-> pickup_hour_12,
     pickup_minute |-> pickup_minute, am_pm |-> am_pm]

-----------------------------------------------------------------------------
(* Values that stand for "not assigned in this run" *)

NoModel == [id |-> 0, fitted |-> FALSE]
NoInt   == -1
NoFloat == <<>>
NoRow   == <<>>
NoLabel == ""
NoRequest ==
    [passenger_count |-> 0, trip_distance |-> <<0, 1>>, trip_duration |-> 0,
     pickup_hour_12 |-> 0, pickup_minute |-> 0, am_pm |-> ""]
NoSeen  == [req |-> NoRequest, vec |-> NoRow]

\* what model.predict can return: 0.00, 12.347 and 52.50
FareValues == {Rat(0, 1), Rat(12347, 1000), Rat(105, 2)}

-----------------------------------------------------------------------------
(* Initial state: the process has just started and the first run of the      *)
(* first session begins, every widget at its default.                        *)

WidgetDefaults ==
    /\ passenger_count = SelectboxDefault(PassengerCountBox)
    /\ trip_distance = TripDistanceSlider.value
    /\ trip_duration = TripDurationSlider.value
    /\ pickup_hour_12 = SelectboxDefault(PickupHourBox)
    /\ pickup_minute = PickupMinuteSlider.value
    /\ am_pm = SelectboxDefault(AmPmBox)

FreshRun ==
    /\ pc = "load_model"
    /\ model = NoModel
    /\ pickup_hour_24 = NoInt
    /\ pickup_time = NoFloat
    /\ is_night = FALSE
    /\ night_label = NoLabel
    /\ predict_clicked = FALSE
    /\ fitted_checked = FALSE
    /\ input_data = NoRow
    /\ predict_calls = 0
    /\ predicted_with = NoModel
    /\ predict_outcome = "none"
    /\ predicted_fare = NoFloat
    /\ fare_shown = NoInt
    /\ error = "none"
    /\ footer_shown = FALSE

Init ==
    /\ cached_model = NoModel
    /\ loads = 0
    /\ WidgetDefaults
    /\ button_state = FALSE
    /\ trigger = "load"
    /\ FreshRun
    /\ seen = NoSeen

-----------------------------------------------------------------------------
(* The script, one action per block *)

\* an uncaught exception: Streamlit shows it and the run is over
Raise(e) ==
    /\ error' = e
    /\ pc' = "idle"
    /\ button_state' = FALSE

\* LoadModel without the decorator: every run loads the file
LoadModelUncached ==
    /\ pc = "load_model"
    /\ \/ \E f \in BOOLEAN :
            LET obj == [id |-> loads + 1, fitted |-> f] IN
            /\ cached_model' = obj
            /\ loads' = loads + 1
            /\ model' = obj
            /\ pc' = "time_conversion"
            /\ UNCHANGED <<error, button_state>>
       \/ /\ Raise("LoadError")
          /\ UNCHANGED <<cached_model, loads, model>>
    /\ UNCHANGED <<widget_vars, trigger, pickup_hour_24, pickup_time, is_night,
                   night_label, predict_clicked, fitted_checked, input_data,
                   predict_calls, predicted_with, predict_outcome,
                   predicted_fare, fare_shown, footer_shown, seen>>

\* lines 19-24: model = load_model() under @st.cache_resource
LoadModel ==
    /\ pc = "load_model"
    /\ IF cached_model # NoModel
       THEN /\ model' = cached_model
            /\ pc' = "time_conversion"
            /\ UNCHANGED <<cached_model, loads, error, button_state>>
       ELSE \/ \E f \in BOOLEAN :
                LET obj == [id |-> loads + 1, fitted |-> f] IN
                /\ cached_model' = obj
                /\ loads' = loads + 1
                /\ model' = obj
                /\ pc' = "time_conversion"
                /\ UNCHANGED <<error, button_state>>
            \/ /\ Raise("LoadError")
               /\ UNCHANGED <<cached_model, loads, model>>
    /\ UNCHANGED <<widget_vars, trigger, pickup_hour_24, pickup_time, is_night,
                   night_label, predict_clicked, fitted_checked, input_data,
                   predict_calls, predicted_with, predict_outcome, predicted_fare, fare_shown,
                   footer_shown, seen>>

\* lines 166-173
TimeConversion ==
    /\ pc = "time_conversion"
    /\ pickup_hour_24' = To24Hour(pickup_hour_12, am_pm)
    /\ pickup_time' = FractionalHour(pickup_hour_24', pickup_minute)
    /\ pc' = "night_detection"
    /\ UNCHANGED <<process_vars, widget_vars, button_state, trigger, model,
                   is_night, night_label, predict_clicked, fitted_checked,
                   input_data, predict_calls, predicted_with, predict_outcome, predicted_fare,
                   fare_shown, error, footer_shown, seen>>

\* lines 175-183
NightDetection ==
    /\ pc = "night_detection"
    /\ is_night' = IsNight(pickup_hour_24)
    /\ night_label' = NightLabel(is_night')
    /\ pc' = "button"
    /\ UNCHANGED <<process_vars, widget_vars, button_state, trigger, model,
                   pickup_hour_24, pickup_time, predict_clicked, fitted_checked,
                   input_data, predict_calls, predicted_with, predict_outcome, predicted_fare,
                   fare_shown, error, footer_shown, seen>>

\* ButtonValue of a button that reads as clicked in every run
ButtonValueAlways == TRUE

\* st.button: TRUE in the run a click started
ButtonValue == button_state

\* lines 189-195
Button ==
    /\ pc = "button"
    /\ predict_clicked' = ButtonValue
    /\ pc' = IF predict_clicked' THEN "check_is_fitted" ELSE "footer"
    /\ UNCHANGED <<process_vars, widget_vars, button_state, trigger, model,
                   pickup_hour_24, pickup_time, is_night, night_label,
                   fitted_checked, input_data, predict_calls, predicted_with, predict_outcome,
                   predicted_fare, fare_shown, error, footer_shown, seen>>

\* IsFitted of a check that accepts every object
IsFittedAlways(m) == TRUE

\* check_is_fitted(m) returns normally
IsFitted(m) == m.fitted

\* line 196
CheckIsFitted ==
    /\ pc = "check_is_fitted"
    /\ IF IsFitted(model)
       THEN /\ fitted_checked' = TRUE
            /\ pc' = "input_data"
            /\ UNCHANGED <<error, button_state>>
       ELSE /\ Raise("NotFittedError")
            /\ UNCHANGED fitted_checked
    /\ UNCHANGED <<process_vars, widget_vars, trigger, model, pickup_hour_24,
                   pickup_time, is_night, night_label, predict_clicked,
                   input_data, predict_calls, predicted_with, predict_outcome, predicted_fare,
                   fare_shown, footer_shown, seen>>

\* BuildInput behind a one-entry memo whose key test is inverted: the row
\* kept from an earlier request is returned for every other request
BuildInputMemoized ==
    /\ pc = "input_data"
    /\ input_data' = IF seen.vec # NoRow /\ seen.req # Request
                     THEN seen.vec
                     ELSE InputRow(trip_distance, trip_duration, pickup_time,
                                   is_night, passenger_count)
    /\ pc' = "predict"
    /\ UNCHANGED <<process_vars, widget_vars, button_state, trigger, model,
                   pickup_hour_24, pickup_time, is_night, night_label,
                   predict_clicked, fitted_checked, predict_calls,
                   predicted_with, predict_outcome, predicted_fare, fare_shown,
                   error, footer_shown, seen>>

\* lines 198-203
BuildInput ==
    /\ pc = "input_data"
    /\ input_data' = InputRow(trip_distance, trip_duration, pickup_time,
                              is_night, passenger_count)
    /\ pc' = "predict"
    /\ UNCHANGED <<process_vars, widget_vars, button_state, trigger, model,
                   pickup_hour_24, pickup_time, is_night, night_label,
                   predict_clicked, fitted_checked, predict_calls,
                   predicted_with, predict_outcome, predicted_fare, fare_shown, error,
                   footer_shown, seen>>

\* Predict that catches the predictor's exception and goes on with a fare of 0
PredictWithFallback ==
    /\ pc = "predict"
    /\ predict_calls' = predict_calls + 1
    /\ predicted_with' = model
    /\ \/ \E fare \in FareValues :
            /\ predict_outcome' = "returned"
            /\ predicted_fare' = fare
       \/ /\ predict_outcome' = "raised"
          /\ predicted_fare' = FloatOfInt(0)
    /\ pc' = "render"
    /\ UNCHANGED <<error, button_state>>
    /\ UNCHANGED <<process_vars, widget_vars, trigger, model, pickup_hour_24,
                   pickup_time, is_night, night_label, predict_clicked,
                   fitted_checked, input_data, fare_shown, footer_shown, seen>>

\* lines 205-206: model.predict(input_data)[0] returns a fare or raises
Predict ==
    /\ pc = "predict"
    /\ predict_calls' = predict_calls + 1
    /\ predicted_with' = model
    /\ \/ \E fare \in FareValues :
            /\ predict_outcome' = "returned"
            /\ predicted_fare' = fare
            /\ pc' = "render"
            /\ UNCHANGED <<error, button_state>>
       \/ /\ predict_outcome' = "raised"
          /\ Raise("PredictionError")
          /\ UNCHANGED predicted_fare
    /\ UNCHANGED <<process_vars, widget_vars, trigger, model, pickup_hour_24,
                   pickup_time, is_night, night_label, predict_clicked,
                   fitted_checked, input_data, fare_shown, footer_shown, seen>>

\* lines 208-217
Render ==
    /\ pc = "render"
    /\ fare_shown' = Format2f(predicted_fare)
    /\ pc' = "footer"
    /\ UNCHANGED <<process_vars, widget_vars, button_state, trigger, model,
                   pickup_hour_24, pickup_time, is_night, night_label,
                   predict_clicked, fitted_checked, input_data, predict_calls,
                   predicted_with, predict_outcome, predicted_fare, error, footer_shown, seen>>

\* lines 219-228, the end of the script
Footer ==
    /\ pc = "footer"
    /\ footer_shown' = TRUE
    /\ pc' = "idle"
    /\ button_state' = FALSE
    /\ UNCHANGED <<process_vars, widget_vars, trigger, model, pickup_hour_24,
                   pickup_time, is_night, night_label, predict_clicked,
                   fitted_checked, input_data, predict_calls, predicted_with, predict_outcome,
                   predicted_fare, fare_shown, error, seen>>

-----------------------------------------------------------------------------
(* The user, between runs.  Every interaction starts a run of the script in  *)
(* a fresh namespace and on a page without the elements of the run before.   *)

StartRun(t) ==
    /\ trigger' = t
    /\ pc' = "load_model"
    /\ model' = NoModel
    /\ pickup_hour_24' = NoInt
    /\ pickup_time' = NoFloat
    /\ is_night' = FALSE
    /\ night_label' = NoLabel
    /\ predict_clicked' = FALSE
    /\ fitted_checked' = FALSE
    /\ input_data' = NoRow
    /\ predict_calls' = 0
    /\ predicted_with' = NoModel
    /\ predict_outcome' = "none"
    /\ predicted_fare' = NoFloat
    /\ fare_shown' = NoInt
    /\ error' = "none"
    /\ footer_shown' = FALSE

\* the values the user of the session picks: the ends of each widget's range
\* and its default
BoxChoices(w) ==
    {w.options[1], SelectboxDefault(w), w.options[Len(w.options)]}
SliderChoices(s) == {s.min_value, s.value, s.max_value}

\* lines 102-107
SelectPassengerCount ==
    /\ pc = "idle"
    /\ \E v \in BoxChoices(PassengerCountBox) \cap SelectboxValues(PassengerCountBox) :
          /\ v # passenger_count
          /\ passenger_count' = v
    /\ StartRun("widget")
    /\ UNCHANGED <<process_vars, trip_distance, trip_duration, pickup_hour_12,
                   pickup_minute, am_pm, button_state, seen>>

\* lines 112-119
SlideTripDistance ==
    /\ pc = "idle"
    /\ \E v \in SliderChoices(TripDistanceSlider) \cap FloatSliderValues(TripDistanceSlider) :
          /\ v # trip_distance
          /\ trip_distance' = v
    /\ StartRun("widget")
    /\ UNCHANGED <<process_vars, passenger_count, trip_duration, pickup_hour_12,
                   pickup_minute, am_pm, button_state, seen>>

\* lines 124-131
SlideTripDuration ==
    /\ pc = "idle"
    /\ \E v \in SliderChoices(TripDurationSlider) \cap SliderValues(TripDurationSlider) :
          /\ v # trip_duration
          /\ trip_duration' = v
    /\ StartRun("widget")
    /\ UNCHANGED <<process_vars, passenger_count, trip_distance, pickup_hour_12,
                   pickup_minute, am_pm, button_state, seen>>

\* lines 139-144
SelectPickupHour ==
    /\ pc = "idle"
    /\ \E v \in BoxChoices(PickupHourBox) \cap SelectboxValues(PickupHourBox) :
          /\ v # pickup_hour_12
          /\ pickup_hour_12' = v
    /\ StartRun("widget")
    /\ UNCHANGED <<process_vars, passenger_count, trip_distance, trip_duration,
                   pickup_minute, am_pm, button_state, seen>>

\* lines 146-153
SlidePickupMinute ==
    /\ pc = "idle"
    /\ \E v \in SliderChoices(PickupMinuteSlider) \cap SliderValues(PickupMinuteSlider) :
          /\ v # pickup_minute
          /\ pickup_minute' = v
    /\ StartRun("widget")
    /\ UNCHANGED <<process_vars, passenger_count, trip_distance, trip_duration,
                   pickup_hour_12, am_pm, button_state, seen>>

\* lines 155-160
SelectAmPm ==
    /\ pc = "idle"
    /\ \E v \in BoxChoices(AmPmBox) \cap SelectboxValues(AmPmBox) :
          /\ v # am_pm
          /\ am_pm' = v
    /\ StartRun("widget")
    /\ UNCHANGED <<process_vars, passenger_count, trip_distance, trip_duration,
                   pickup_hour_12, pickup_minute, button_state, seen>>

\* lines 189-190: the user clicks the button
ClickPredict ==
    /\ pc = "idle"
    /\ button_state' = TRUE
    /\ StartRun("click")
    /\ UNCHANGED <<process_vars, widget_vars, seen>>

\* the page is opened again: a new session of the same process
OpenPage ==
    /\ pc = "idle"
    /\ passenger_count' = SelectboxDefault(PassengerCountBox)
    /\ trip_distance' = TripDistanceSlider.value
    /\ trip_duration' = TripDurationSlider.value
    /\ pickup_hour_12' = SelectboxDefault(PickupHourBox)
    /\ pickup_minute' = PickupMinuteSlider.value
    /\ am_pm' = SelectboxDefault(AmPmBox)
    /\ button_state' = FALSE
    /\ StartRun("load")
    /\ UNCHANGED <<process_vars, seen>>

\* history: remember the derivation of the run that has just ended
Remember ==
    /\ pc = "idle"
    /\ input_data # NoRow
    /\ seen' = [req |-> Request, vec |-> input_data]
    /\ seen' # seen
    /\ UNCHANGED <<process_vars, widget_vars, button_state, pc, trigger, model,
                   pickup_hour_24, pickup_time, is_night, night_label,
                   predict_clicked, fitted_checked, input_data, predict_calls,
                   predicted_with, predict_outcome, predicted_fare, fare_shown, error,
                   footer_shown>>

-----------------------------------------------------------------------------
(* Specifications *)

Script ==
    \/ LoadModel
    \/ TimeConversion
    \/ NightDetection
    \/ Button
    \/ CheckIsFitted
    \/ BuildInput
    \/ Predict
    \/ Render
    \/ Footer

User ==
    \/ SelectPassengerCount
    \/ SlideTripDistance
    \/ SlideTripDuration
    \/ SelectPickupHour
    \/ SlidePickupMinute
    \/ SelectAmPm
    \/ ClickPredict
    \/ OpenPage

\* a process and its sessions, one after the other
Next == Script \/ User

Spec == Init /\ [][Next]_vars

\* the same, with the history of derivations
NextHistory == Script \/ User \/ Remember

SpecHistory == Init /\ [][NextHistory]_vars

\* one run of the script, started with any pickup time the widgets offer
\* and one of the trips of DeriveTrips selected
DeriveTrips == {<<Rat(1, 2), 2, 6>>, <<Rat(5, 1), 15, 1>>, <<Rat(10, 1), 30, 2>>}

InitDerive ==
    /\ cached_model = NoModel
    /\ loads = 0
    /\ \E t \in DeriveTrips :
          /\ trip_distance = t[1]
          /\ trip_duration = t[2]
          /\ passenger_count = t[3]
    /\ trip_distance \in FloatSliderValues(TripDistanceSlider)
    /\ trip_duration \in SliderValues(TripDurationSlider)
    /\ passenger_count \in SelectboxValues(PassengerCountBox)
    /\ pickup_hour_12 \in SelectboxValues(PickupHourBox)
    /\ pickup_minute \in SliderValues(PickupMinuteSlider)
    /\ am_pm \in SelectboxValues(AmPmBox)
    /\ button_state \in BOOLEAN
    /\ trigger = IF button_state THEN "click" ELSE "widget"
    /\ FreshRun
    /\ seen = NoSeen

NextDerive == Script

SpecDerive == InitDerive /\ [][NextDerive]_vars

-----------------------------------------------------------------------------
(* Properties *)

Night == "Night / Early Morning Ride"
Day   == "Daytime Ride"

\* order of two floats, and the integer part of a non-negative float
FloatLe(f, g) == f[1] * g[2] <= g[1] * f[2]
FloatLt(f, g) == f[1] * g[2] < g[1] * f[2]
FloatFloor(f) == f[1] \div f[2]

\* the hour of the 24-hour clock that the selected hour and meridiem name
ClockHour == (pickup_hour_12 % 12) + (IF am_pm = "PM" THEN 12 ELSE 0)

HourPairs == (1..12) \X {"AM", "PM"}

\* C1: the 12-hour to 24-hour conversion is a bijection from the 24 pairs
\* (hour12, meridiem) onto 0..23: (12, AM) gives 0, (12, PM) gives 12, (h, AM)
\* gives h and (h, PM) gives h + 12 for h in 1..11; every hour of 0..23 is
\* produced by exactly one pair, which the hour determines.
C1_To24HourBijection ==
    pickup_hour_24 # NoInt =>
          /\ pickup_hour_24 \in 0..23
          /\ (pickup_hour_12 = 12 /\ am_pm = "AM") => pickup_hour_24 = 0
          /\ (pickup_hour_12 = 12 /\ am_pm = "PM") => pickup_hour_24 = 12
          /\ (pickup_hour_12 \in 1..11 /\ am_pm = "AM")
                => pickup_hour_24 = pickup_hour_12
          /\ (pickup_hour_12 \in 1..11 /\ am_pm = "PM")
                => pickup_hour_24 = pickup_hour_12 + 12
          /\ am_pm = (IF pickup_hour_24 < 12 THEN "AM" ELSE "PM")
          /\ pickup_hour_12 = (IF pickup_hour_24 % 12 = 0 THEN 12
                               ELSE pickup_hour_24 % 12)
          /\ {p \in HourPairs : To24Hour(p[1], p[2]) = pickup_hour_24}
                = {<<pickup_hour_12, am_pm>>}

C1_Witness ==
    /\ pickup_hour_12 = 12 /\ am_pm = "AM" /\ pickup_hour_24 = 0
    /\ pc = "night_detection"

\* C2: is_night is true exactly for the hours 22, 23 and 0..5, and the
\* selected hour and meridiem alone decide it, whatever the minute.
C2_NightByIntegerHour ==
    night_label # NoLabel =>
        /\ is_night <=> (pickup_hour_24 \in {22, 23, 0, 1, 2, 3, 4, 5})
        /\ ~is_night <=> (pickup_hour_24 \in 6..21)
        /\ is_night <=>
              \/ am_pm = "AM" /\ pickup_hour_12 \in {12, 1, 2, 3, 4, 5}
              \/ am_pm = "PM" /\ pickup_hour_12 \in {10, 11}
        /\ (pickup_hour_12 = 5 /\ am_pm = "AM") => is_night
        /\ (pickup_hour_12 = 6 /\ am_pm = "AM") => ~is_night

C2_Witness ==
    /\ pickup_hour_12 = 5 /\ pickup_minute = 59 /\ am_pm = "AM"
    /\ night_label # NoLabel /\ is_night

C4_FractionalHourRange ==
    pickup_time # NoFloat =>
        /\ FloatLe(<<pickup_hour_24, 1>>, pickup_time)
        /\ FloatLt(pickup_time, <<pickup_hour_24 + 1, 1>>)
        /\ FloatLt(pickup_time, <<24, 1>>)
        /\ FloatFloor(pickup_time) = pickup_hour_24
        /\ pickup_time[1] * 60 = (60 * pickup_hour_24 + pickup_minute) * pickup_time[2]
        /\ 60 * pickup_hour_24 <= 60 * pickup_hour_24 + pickup_minute
        /\ 60 * pickup_hour_24 + pickup_minute < 60 * (pickup_hour_24 + 1)

C4_Witness ==
    /\ pickup_hour_24 = 23 /\ pickup_minute = 59
    /\ pickup_time = <<1439, 60>>

\* C5: in every run the fitted check comes before the predictor: predict is
\* only called on an object the check has accepted in this run, and a run in
\* which the check fails ends with that error, without a call of predict and
\* without a fare.
C5_FittedCheckBeforePredict ==
    /\ pc \in {"input_data", "predict", "render"} => fitted_checked
    /\ predict_calls > 0 => (fitted_checked /\ predicted_with.fitted)
    /\ fitted_checked => model.fitted
    /\ (pc = "idle" /\ predict_clicked /\ ~model.fitted)
          => error = "NotFittedError"
    /\ error = "NotFittedError" =>
          /\ pc = "idle"
          /\ predict_calls = 0
          /\ predict_outcome = "none"
          /\ predicted_fare = NoFloat
          /\ fare_shown = NoInt

C5_Witness ==
    /\ pc = "idle" /\ trigger = "click" /\ predict_clicked
    /\ error = "NotFittedError" /\ predict_calls = 0

\* C6: a run started by a click ends either with exactly one fare, the one
\* the predictor returned, and no error, or with an error and no fare; an
\* exception of the predictor ends the run as it is, after one call, with no
\* fare put in its place.
C6_FareOrError ==
    /\ predict_calls <= 1
    /\ (pc = "idle" /\ trigger = "click") =>
          \/ /\ error = "none"
             /\ predict_calls = 1
             /\ predict_outcome = "returned"
             /\ predicted_fare \in FareValues
             /\ fare_shown = Format2f(predicted_fare)
             /\ fare_shown # NoInt
          \/ /\ error # "none"
             /\ fare_shown = NoInt
    /\ predict_outcome = "raised" =>
          /\ pc = "idle"
          /\ error = "PredictionError"
          /\ predict_calls = 1
          /\ predicted_fare = NoFloat
          /\ fare_shown = NoInt
    /\ error = "PredictionError" => predict_outcome = "raised"
    /\ fare_shown # NoInt => predict_outcome = "returned"

C6_Witness ==
    /\ pc = "idle" /\ trigger = "click"
    /\ predict_outcome = "raised" /\ error = "PredictionError"
    /\ fare_shown = NoInt

\* C7: the model file is loaded at most once in the process: the first run
\* that gets its model loads it, every later run gets the same cached
\* object, the cache entry is never dropped or replaced, and every
\* prediction is made with that object, after its load.
C7_LoadedOnlyOnce ==
    /\ [](/\ loads <= 1
          /\ (cached_model # NoModel) <=> (loads = 1)
          /\ cached_model # NoModel => cached_model.id = 1
          /\ model # NoModel => (model = cached_model /\ loads = 1)
          /\ (pc \notin {"load_model", "idle"}) => model # NoModel
          /\ predict_calls > 0 =>
                (predicted_with = cached_model /\ cached_model # NoModel))
    /\ [][/\ cached_model # NoModel => cached_model' = cached_model
          /\ loads' # loads => (pc = "load_model" /\ loads = 0 /\ model' = cached_model')]_vars

C7_Witness ==
    /\ trigger = "click" /\ predict_calls = 1
    /\ loads = 1 /\ predicted_with = cached_model

\* C8: every input is within its declared range in every state (passengers
\* 1..6, distance 0.5..50.0 in steps of 0.5, duration 2..120, hour 1..12,
\* minute 0..59, AM or PM), the widgets offer exactly those values, and so a
\* row is never built from an input out of range.
C8_InputsInRange ==
    /\ passenger_count \in 1..6
    /\ trip_distance \in {Rat(k, 2) : k \in 1..100}
    /\ FloatLe(<<1, 2>>, trip_distance) /\ FloatLe(trip_distance, <<50, 1>>)
    /\ trip_duration \in 2..120
    /\ pickup_hour_12 \in 1..12
    /\ pickup_minute \in 0..59
    /\ am_pm \in {"AM", "PM"}
    /\ SelectboxValues(PassengerCountBox) = 1..6
    /\ FloatSliderValues(TripDistanceSlider) = {Rat(k, 2) : k \in 1..100}
    /\ SliderValues(TripDurationSlider) = 2..120
    /\ SelectboxValues(PickupHourBox) = 1..12
    /\ SliderValues(PickupMinuteSlider) = 0..59
    /\ SelectboxValues(AmPmBox) = {"AM", "PM"}

C8_Witness ==
    /\ input_data # NoRow
    /\ passenger_count = 6 /\ trip_distance = <<50, 1>> /\ trip_duration = 120
    /\ pickup_hour_12 = 1 /\ pickup_minute = 59 /\ am_pm = "AM"

C10_PredictOnlyOnClick ==
    /\ predict_calls <= 1
    /\ (predict_calls > 0 \/ input_data # NoRow \/ fare_shown # NoInt)
          => (trigger = "click" /\ predict_clicked)
    /\ predict_clicked <=> (trigger = "click" /\ pc \notin
          {"load_model", "time_conversion", "night_detection", "button"}
          /\ error # "LoadError")
    /\ (trigger # "click" /\ pc = "idle" /\ error = "none") =>
          /\ pickup_hour_24 = ClockHour
          /\ pickup_time # NoFloat
          /\ night_label # NoLabel
          /\ footer_shown
          /\ predict_calls = 0
          /\ fare_shown = NoInt
    /\ night_label # NoLabel =>
          /\ night_label = (IF is_night THEN Night ELSE Day)
          /\ is_night <=> (ClockHour >= 22 \/ ClockHour <= 5)
    /\ input_data # NoRow =>
          input_data[4] = (IF night_label = Night THEN <<1, 1>> ELSE <<0, 1>>)

C10_Witness ==
    /\ trigger = "widget" /\ pc = "idle" /\ error = "none"
    /\ night_label = Night /\ is_night
    /\ predict_calls = 0 /\ fare_shown = NoInt /\ footer_shown

====
